---- MODULE Spec2Model ----
(***************************************************************************)
(* Model of app.py: the /search request handler (search), the shopping     *)
(* search client (search_products_serper), the budget filter               *)
(* (filter_by_budget) and the recommendation client                        *)
(* (get_ai_recommendations).                                               *)
(*                                                                         *)
(* A Python string is a sequence of one-character strings; string literals *)
(* of the source that the code never looks into are kept as one piece.     *)
(* Money is counted in cents, ratings in halves of a star (9 = 4.5), and   *)
(* the rounded average in tenths (38 = 3.8), so that all arithmetic is     *)
(* exact integer arithmetic.                                               *)
(***************************************************************************)
EXTENDS Integers, Sequences, FiniteSets, TLC

\* ------------------------------------------------------------- bounds
\* Longest product list the search endpoint returns in the model.
MaxProducts == 3
\* Longest price string of the exhaustively enumerated prices.
MaxPriceLen == 3

\* ------------------------------------------------------------ strings
AsciiDigits == {"0", "1", "2", "3", "4", "5", "6", "7", "8", "9"}

\* A character str.isdigit accepts and float() rejects: U+00B2 SUPERSCRIPT TWO.
SuperscriptDigits == {"sup2"}

Whitespace == {" ", "\t"}

\* str.isdigit on one character.
isdigit(c) == c \in AsciiDigits \cup SuperscriptDigits

\* s.replace(c, '') for a one-character c.
replace_with_empty(s, c) == SelectSeq(s, LAMBDA x : x # c)

RECURSIVE lstrip(_)
lstrip(s) ==
    IF s # <<>> /\ Head(s) \in Whitespace THEN lstrip(Tail(s)) ELSE s

RECURSIVE rstrip(_)
rstrip(s) ==
    IF s # <<>> /\ s[Len(s)] \in Whitespace
    THEN rstrip(SubSeq(s, 1, Len(s) - 1))
    ELSE s

\* str.strip(): leading and trailing whitespace removed.
strip(s) == rstrip(lstrip(s))

DigitValue(c) ==
    CASE c = "0" -> 0 [] c = "1" -> 1 [] c = "2" -> 2 [] c = "3" -> 3
      [] c = "4" -> 4 [] c = "5" -> 5 [] c = "6" -> 6 [] c = "7" -> 7
      [] c = "8" -> 8 [] c = "9" -> 9

\* float() raises ValueError unless every character is a decimal digit
\* (the argument is never empty and holds only isdigit characters).
float_raises(s) == \E i \in 1..Len(s) : s[i] \notin AsciiDigits

\* float() of a string of decimal digits: its integer value.
RECURSIVE float_of_digits(_)
float_of_digits(s) ==
    IF s = <<>> THEN 0
    ELSE 10 * float_of_digits(SubSeq(s, 1, Len(s) - 1)) + DigitValue(s[Len(s)])

\* ----------------------------------------------------------- products
\* dict.get('price', ''): the price string, '' when the key is absent or
\* (falsy alike) None.
NoPrice == [has |-> FALSE, str |-> <<>>]
Price(s) == [has |-> TRUE, str |-> s]

\* A rating: absent/None, a number, a string float() parses, or a string
\* it rejects (such as "N/A").  halves is the value in half stars.
NoRating == [kind |-> "none", halves |-> 0]
NumRating(h) == [kind |-> "num", halves |-> h]
StrRating(h) == [kind |-> "numstr", halves |-> h]
BadRating == [kind |-> "badstr", halves |-> 0]

Product(p, r) == [price |-> p, rating |-> r]

price_get(product) == IF product.price.has THEN product.price.str ELSE <<>>

\* ------------------------------------------------------ budget filter
budget_ranges ==
    [b \in {"Under $100", "$100 - $300", "$300 - $500", "$500 - $1000", "Over $1000"} |->
        CASE b = "Under $100"   -> [min |-> 0,    max |-> 100,  inf |-> FALSE]
          [] b = "$100 - $300"  -> [min |-> 100,  max |-> 300,  inf |-> FALSE]
          [] b = "$300 - $500"  -> [min |-> 300,  max |-> 500,  inf |-> FALSE]
          [] b = "$500 - $1000" -> [min |-> 500,  max |-> 1000, inf |-> FALSE]
          [] b = "Over $1000"   -> [min |-> 1000, max |-> 0,    inf |-> TRUE]]

\* The digits of the price string, separators removed first.
price_num(price_str) ==
    SelectSeq(replace_with_empty(replace_with_empty(price_str, ","), "."),
              isdigit)

\* Mutant of price_cents: the digits always read as whole dollars.
price_cents_whole_dollars(num) == 100 * float_of_digits(num)

\* The price in cents: more than two digits are read as cents, one or two
\* as whole dollars.
price_cents(num) ==
    IF Len(num) > 2 THEN float_of_digits(num) ELSE 100 * float_of_digits(num)

\* min_price <= price <= max_price, the price in cents.
in_range(cents, range) ==
    /\ 100 * range.min <= cents
    /\ (range.inf \/ cents <= 100 * range.max)

\* The body of the loop: whether the product is appended to filtered.
appended(product, range) ==
    LET price_str == price_get(product)
        num == price_num(price_str)
    IN  IF price_str = <<>> THEN FALSE
        ELSE IF num = <<>> THEN TRUE
        ELSE IF float_raises(num) THEN TRUE
        ELSE in_range(price_cents(num), range)

\* Mutant of filter_by_budget: the loop starts at the second product.
filter_by_budget_skipping_first(products, budget_range) ==
    IF budget_range = "No preference" THEN products
    ELSE IF budget_range \notin DOMAIN budget_ranges THEN products
    ELSE IF products = <<>> THEN <<>>
    ELSE SelectSeq(Tail(products),
                   LAMBDA p : appended(p, budget_ranges[budget_range]))

filter_by_budget(products, budget_range) ==
    IF budget_range = "No preference" THEN products
    ELSE IF budget_range \notin DOMAIN budget_ranges THEN products
    ELSE SelectSeq(products, LAMBDA p : appended(p, budget_ranges[budget_range]))

\* ------------------------------------------------------ search client
\* How the POST to the shopping endpoint ends: a 2xx JSON object with a
\* 'shopping' array, one without that key, a transport error (requests.post
\* raises), a non-2xx status (raise_for_status raises) or a body that is
\* no JSON object (response.json or data.get raises).
SearchOutcomes ==
    {"ok", "no_shopping_key", "transport_error", "http_error", "malformed_body"}

Returned(v) == [raised |-> FALSE, value |-> v]
Raised(e) == [raised |-> TRUE, value |-> <<e>>]

\* Mutant of search_products_serper: no try/except, a failure is raised.
search_products_serper_raising(outcome, shopping) ==
    CASE outcome = "ok" -> Returned(shopping)
      [] outcome = "no_shopping_key" -> Returned(<<>>)
      [] OTHER -> Raised(outcome)

\* The try/except of search_products_serper: every failure becomes [].
search_products_serper(outcome, shopping) ==
    CASE outcome = "ok" -> Returned(shopping)
      [] outcome = "no_shopping_key" -> Returned(<<>>)
      [] OTHER -> Returned(<<>>)

\* ---------------------------------------------- recommendation client
GenOutcomes == {"ok", "network", "quota"}

PromptLimit == 10

Min(a, b) == IF a < b THEN a ELSE b

\* products[:10], the products the prompt lists.
prompt_products(products) == SubSeq(products, 1, Min(PromptLimit, Len(products)))

\* The try/except of get_ai_recommendations: response.text, or the error
\* message as the returned string.
get_ai_recommendations(products, user_preferences, budget_range, category, outcome) ==
    IF outcome = "ok"
    THEN Returned(<<"<response.text>">>)
    ELSE Returned(<<"Error generating recommendations: ", outcome>>)

\* ---------------------------------------------------------- statistics
\* `if p.get('rating')`: None, 0 and '' are falsy.
rating_truthy(p) ==
    \/ p.rating.kind = "num" /\ p.rating.halves # 0
    \/ p.rating.kind \in {"numstr", "badstr"}

rated(filtered) == SelectSeq(filtered, rating_truthy)

\* float(p.get('rating', 0)) raises ValueError on a string that is no number.
ratings_raise(filtered) ==
    \E i \in 1..Len(filtered) :
        rating_truthy(filtered[i]) /\ filtered[i].rating.kind = "badstr"

RECURSIVE sum_halves(_)
sum_halves(ps) ==
    IF ps = <<>> THEN 0 ELSE Head(ps).rating.halves + sum_halves(Tail(ps))

\* round(x, 1) of x = num / den, in tenths: to the nearest tenth, a tie to the
\* even one (the ties of the model's ratings are exact binary fractions).
round1(num, den) ==
    LET q == (10 * num) \div den
        r == (10 * num) % den
    IN  IF 2 * r < den THEN q
        ELSE IF 2 * r > den THEN q + 1
        ELSE IF q % 2 = 0 THEN q ELSE q + 1

\* round(avg_rating, 1) of lines 180-184 and 190, in tenths.
avg_rating_of(filtered) ==
    IF filtered = <<>> THEN 0
    ELSE IF rated(filtered) = <<>> THEN 0
    ELSE round1(sum_halves(rated(filtered)), 2 * Len(rated(filtered)))

\* ------------------------------------------------------------- inputs
\* request.json: the fields of the inbound body (absent keys take the
\* defaults of data.get).
Queries ==
    { <<>>, <<" ">>, <<" ", "\t">>, <<"t", "v">>, <<" ", "t", "v", " ">> }

Categories == {"Other", "Laptops"}

Brands == { <<>>, <<"Acme">> }

FeatureLists == { <<>>, <<"light", "quiet">> }

BudgetLabels == DOMAIN budget_ranges \cup {"No preference", "Luxury"}

DefaultNumResults == 10

Requests ==
    [query : Queries, category : Categories, budget_range : BudgetLabels,
     num_results : {DefaultNumResults}, brand_preference : Brands,
     feature_priority : FeatureLists]

\* The product records the shopping endpoint returns to the handler.
ShoppingProducts ==
    { Product(Price(<<"$", "4", "5", ".", "0", "0">>), NumRating(9)),
      Product(Price(<<"$", "1", "5", "0", ".", "0", "0">>), NoRating),
      Product(Price(<<"F", "r", "e", "e">>), NumRating(6)),
      Product(Price(<<"$", "6", "0", ".", "0", "0">>), BadRating),
      Product(NoPrice, NumRating(0)) }

\* All sequences over S of length at most n.
SeqsUpTo(S, n) == UNION { [1..k -> S] : k \in 0..n }

ShoppingLists == SeqsUpTo(ShoppingProducts, MaxProducts)

\* -------------------------------------------------------------- state
VARIABLES
    pc,                 \* the handler's position
    request,            \* request.json
    enhanced_query,
    products,
    filtered_products,
    ai_recommendations,
    avg_rating,         \* round(avg_rating, 1), in tenths
    response,           \* the status and JSON body returned
    trace,              \* the steps taken, in order
    search_calls,       \* the arguments of each search_products_serper call
    search_outcome,     \* how each call to the shopping endpoint ended
    gen_calls,          \* the arguments of each get_ai_recommendations call
    gen_outcome,        \* how each call to the generation API ended
    fl_pc,              \* filter_by_budget called on its own: position
    fl_products,
    fl_budget,
    fl_once,
    fl_twice

handlerVars ==
    <<pc, request, enhanced_query, products, filtered_products,
      ai_recommendations, avg_rating, response, trace, search_calls,
      search_outcome, gen_calls, gen_outcome>>

filterVars == <<fl_pc, fl_products, fl_budget, fl_once, fl_twice>>

vars == <<handlerVars, filterVars>>

NoResponse == [status |-> 0, body |-> [pending |-> TRUE]]

\* ------------------------------------------------------------ handler
\* join of a list of strings with a separator.
RECURSIVE join(_, _)
join(sep, list) ==
    IF list = <<>> THEN <<>>
    ELSE IF Len(list) = 1 THEN <<Head(list)>>
    ELSE <<Head(list), sep>> \o join(sep, Tail(list))

\* Lines 149-153: category in front unless "Other", brand behind if any.
build_enhanced_query(user_query, category, brand_preference) ==
    LET q1 == IF category # "Other" THEN <<category, " ">> \o user_query
              ELSE user_query
    IN  IF brand_preference # <<>> THEN q1 \o <<" ">> \o brand_preference
        ELSE q1

\* Lines 165-169.
build_preferences_text(user_query, feature_priority, brand_preference) ==
    LET t1 == IF feature_priority # <<>>
              THEN user_query \o <<". Important features: ">>
                              \o join(", ", feature_priority)
              ELSE user_query
    IN  IF brand_preference # <<>>
        THEN t1 \o <<". Preferred brand: ">> \o brand_preference
        ELSE t1

\* An exception that leaves the view: Flask answers 500.
Unhandled(e) == [status |-> 500, body |-> [exception |-> e]]

\* Mutant of query_rejected: `if not user_query`, the strip() forgotten.
query_rejected_without_strip(user_query) == user_query = <<>>

\* `if not user_query.strip()`
query_rejected(user_query) == strip(user_query) = <<>>

\* Lines 136-146.
Validate ==
    /\ pc = "validate"
    /\ trace' = Append(trace, "validate")
    /\ IF query_rejected(request.query)
       THEN /\ response' = [status |-> 400,
                            body |-> [error |-> "Please enter a search query"]]
            /\ pc' = "done"
       ELSE /\ pc' = "build_query"
            /\ UNCHANGED response
    /\ UNCHANGED <<request, enhanced_query, products, filtered_products,
                   ai_recommendations, avg_rating, search_calls,
                   search_outcome, gen_calls, gen_outcome, filterVars>>

\* Lines 148-153.
BuildQuery ==
    /\ pc = "build_query"
    /\ trace' = Append(trace, "build_query")
    /\ enhanced_query' = build_enhanced_query(request.query, request.category,
                                               request.brand_preference)
    /\ pc' = "search"
    /\ UNCHANGED <<request, products, filtered_products, ai_recommendations,
                   avg_rating, response, search_calls, search_outcome,
                   gen_calls, gen_outcome, filterVars>>

\* `if not products`
no_products(found) == found = <<>>

\* Lines 155-159.
Search ==
    /\ pc = "search"
    /\ trace' = Append(trace, "search")
    /\ \E outcome \in SearchOutcomes :
       \E shopping \in (IF outcome = "ok" THEN ShoppingLists ELSE {<<>>}) :
         LET ret == search_products_serper(outcome, shopping)
         IN  /\ search_calls' = Append(search_calls,
                    [query |-> enhanced_query, num_results |-> request.num_results])
             /\ search_outcome' = Append(search_outcome, outcome)
             /\ IF ret.raised
                THEN /\ response' = Unhandled(ret.value)
                     /\ pc' = "done"
                     /\ UNCHANGED products
                ELSE /\ products' = ret.value
                     /\ IF no_products(ret.value)
                        THEN /\ response' =
                                  [status |-> 404,
                                   body |-> [error |-> "No products found. Try adjusting your search query."]]
                             /\ pc' = "done"
                        ELSE /\ pc' = "filter"
                             /\ UNCHANGED response
    /\ UNCHANGED <<request, enhanced_query, filtered_products,
                   ai_recommendations, avg_rating, gen_calls, gen_outcome,
                   filterVars>>

\* Lines 161-162.
Filter ==
    /\ pc = "filter"
    /\ trace' = Append(trace, "filter")
    /\ filtered_products' = filter_by_budget(products, request.budget_range)
    /\ pc' = "generate"
    /\ UNCHANGED <<request, enhanced_query, products, ai_recommendations,
                   avg_rating, response, search_calls, search_outcome,
                   gen_calls, gen_outcome, filterVars>>

\* Mutant of Generate: a failed generation call is issued a second time.
GenerateWithRetry ==
    /\ pc = "generate"
    /\ trace' = Append(trace, "generate")
    /\ \E outcome \in GenOutcomes :
         LET preferences_text ==
                 build_preferences_text(request.query, request.feature_priority,
                                        request.brand_preference)
             ret == get_ai_recommendations(filtered_products, preferences_text,
                        request.budget_range, request.category, outcome)
         IN  /\ gen_calls' = Append(gen_calls,
                    [products |-> prompt_products(filtered_products),
                     user_preferences |-> preferences_text,
                     budget_range |-> request.budget_range,
                     category |-> request.category])
             /\ gen_outcome' = Append(gen_outcome, outcome)
             /\ ai_recommendations' = ret.value
             /\ pc' = IF outcome # "ok" /\ gen_calls = <<>>
                      THEN "generate" ELSE "statistics"
             /\ UNCHANGED response
    /\ UNCHANGED <<request, enhanced_query, products, filtered_products,
                   avg_rating, search_calls, search_outcome, filterVars>>

\* Lines 164-177.
Generate ==
    /\ pc = "generate"
    /\ trace' = Append(trace, "generate")
    /\ \E outcome \in GenOutcomes :
         LET preferences_text ==
                 build_preferences_text(request.query, request.feature_priority,
                                        request.brand_preference)
             ret == get_ai_recommendations(filtered_products, preferences_text,
                        request.budget_range, request.category, outcome)
         IN  /\ gen_calls' = Append(gen_calls,
                    [products |-> prompt_products(filtered_products),
                     user_preferences |-> preferences_text,
                     budget_range |-> request.budget_range,
                     category |-> request.category])
             /\ gen_outcome' = Append(gen_outcome, outcome)
             /\ IF ret.raised
                THEN /\ response' = Unhandled(ret.value)
                     /\ pc' = "done"
                     /\ UNCHANGED ai_recommendations
                ELSE /\ ai_recommendations' = ret.value
                     /\ pc' = "statistics"
                     /\ UNCHANGED response
    /\ UNCHANGED <<request, enhanced_query, products, filtered_products,
                   avg_rating, search_calls, search_outcome, filterVars>>

\* Lines 179-184.
Statistics ==
    /\ pc = "statistics"
    /\ trace' = Append(trace, "statistics")
    /\ IF ratings_raise(filtered_products)
       THEN /\ response' = Unhandled("ValueError")
            /\ pc' = "done"
            /\ UNCHANGED avg_rating
       ELSE /\ avg_rating' = avg_rating_of(filtered_products)
            /\ pc' = "respond"
            /\ UNCHANGED response
    /\ UNCHANGED <<request, enhanced_query, products, filtered_products,
                   ai_recommendations, search_calls, search_outcome,
                   gen_calls, gen_outcome, filterVars>>

\* Lines 186-194.
Respond ==
    /\ pc = "respond"
    /\ trace' = Append(trace, "respond")
    /\ response' =
         [status |-> 200,
          body |-> [success |-> TRUE,
                    products_found |-> Len(products),
                    products_after_filter |-> Len(filtered_products),
                    avg_rating |-> avg_rating,
                    budget_range |-> request.budget_range,
                    ai_recommendations |-> ai_recommendations,
                    products |-> filtered_products]]
    /\ pc' = "done"
    /\ UNCHANGED <<request, enhanced_query, products, filtered_products,
                   ai_recommendations, avg_rating, search_calls,
                   search_outcome, gen_calls, gen_outcome, filterVars>>

FilterIdle ==
    /\ fl_pc = "off"
    /\ fl_products = <<>>
    /\ fl_budget = "No preference"
    /\ fl_once = <<>>
    /\ fl_twice = <<>>

\* One request arrives at search().
Init ==
    /\ pc = "validate"
    /\ request \in Requests
    /\ enhanced_query = <<>>
    /\ products = <<>>
    /\ filtered_products = <<>>
    /\ ai_recommendations = <<>>
    /\ avg_rating = 0
    /\ response = NoResponse
    /\ trace = <<>>
    /\ search_calls = <<>>
    /\ search_outcome = <<>>
    /\ gen_calls = <<>>
    /\ gen_outcome = <<>>
    /\ FilterIdle

Next ==
    \/ Validate
    \/ BuildQuery
    \/ Search
    \/ Filter
    \/ Generate
    \/ Statistics
    \/ Respond

Spec == Init /\ [][Next]_vars

\* ------------------------------------------- filter_by_budget alone
\* The characters of the exhaustively enumerated price strings.
PriceAlphabet == {"$", ",", ".", "0", "1", "5", "9", "F", "sup2"}

EnumeratedPrices == SeqsUpTo(PriceAlphabet, MaxPriceLen)

\* Longer price strings: the documented examples and the bracket bounds.
NamedPrices ==
    { <<"$", "4", "5", ".", "0", "0">>,
      <<"$", "1", "5", "0", ".", "0", "0">>,
      <<"$", "1", ",", "2", "9", "9", ".", "9", "9">>,
      <<"F", "r", "e", "e">>,
      <<"$", "9", "9", ".", "9", "9">>,
      <<"$", "1", "0", "0", ".", "0", "0">>,
      <<"$", "1", "0", "0", ".", "0", "1">>,
      <<"$", "3", "0", "0", ".", "0", "0">>,
      <<"$", "5", "0", "0", ".", "0", "0">>,
      <<"$", "1", ",", "0", "0", "0", ".", "0", "0">>,
      <<"$", "5", "/", "m", "sup2">> }

PriceValues ==
    {NoPrice} \cup { Price(s) : s \in EnumeratedPrices \cup NamedPrices }

\* The products of the longer lists given to the filter.
ListProducts ==
    ShoppingProducts \cup
        { Product(Price(<<>>), NoRating),
          Product(Price(<<"$", "5", "/", "m", "sup2">>), NoRating) }

FilterInputs ==
    { <<Product(p, NoRating)>> : p \in PriceValues }
        \cup SeqsUpTo(ListProducts, MaxProducts)

HandlerIdle ==
    /\ pc = "idle"
    /\ request = [query |-> <<>>, category |-> "Other",
                  budget_range |-> "No preference",
                  num_results |-> DefaultNumResults,
                  brand_preference |-> <<>>, feature_priority |-> <<>>]
    /\ enhanced_query = <<>>
    /\ products = <<>>
    /\ filtered_products = <<>>
    /\ ai_recommendations = <<>>
    /\ avg_rating = 0
    /\ response = NoResponse
    /\ trace = <<>>
    /\ search_calls = <<>>
    /\ search_outcome = <<>>
    /\ gen_calls = <<>>
    /\ gen_outcome = <<>>

InitFilter ==
    /\ HandlerIdle
    /\ fl_pc = "input"
    /\ fl_products \in FilterInputs
    /\ fl_budget \in BudgetLabels
    /\ fl_once = <<>>
    /\ fl_twice = <<>>

\* filter_by_budget(products, budget_range)
FilterOnce ==
    /\ fl_pc = "input"
    /\ fl_once' = filter_by_budget(fl_products, fl_budget)
    /\ fl_pc' = "once"
    /\ UNCHANGED <<fl_products, fl_budget, fl_twice, handlerVars>>

\* filter_by_budget on the list it returned, same bracket.
FilterTwice ==
    /\ fl_pc = "once"
    /\ fl_twice' = filter_by_budget(fl_once, fl_budget)
    /\ fl_pc' = "twice"
    /\ UNCHANGED <<fl_products, fl_budget, fl_once, handlerVars>>

NextFilter ==
    \/ FilterOnce
    \/ FilterTwice

SpecFilter == InitFilter /\ [][NextFilter]_vars

\* ===================================================================
\* Properties of filter_by_budget (checked under SpecFilter)
\* ===================================================================
RecognisedBudget == fl_budget \in DOMAIN budget_ranges

FilterApplied == fl_pc \in {"once", "twice"}

\* The product is in the list the filter returned.
KeptByFilter(p) == \E j \in 1..Len(fl_once) : fl_once[j] = p

HasDecimalDigit(s) == \E i \in 1..Len(s) : s[i] \in AsciiDigits

HasSuperscriptDigit(s) == \E i \in 1..Len(s) : s[i] \in SuperscriptDigits

\* The value the documentation gives a price string, in cents: every
\* character that is no decimal digit removed, the rest read as cents when
\* there are more than 2 digits, else as whole dollars.
DocumentedCents(s) ==
    LET d == SelectSeq(s, LAMBDA c : c \in AsciiDigits)
    IN  IF Len(d) > 2 THEN float_of_digits(d) ELSE 100 * float_of_digits(d)

StrictlyInside(cents, b) ==
    /\ 100 * budget_ranges[b].min < cents
    /\ (budget_ranges[b].inf \/ cents < 100 * budget_ranges[b].max)

StrictlyOutside(cents, b) ==
    \/ cents < 100 * budget_ranges[b].min
    \/ (~budget_ranges[b].inf /\ cents > 100 * budget_ranges[b].max)

PriceIs(p, s) == p.price.has /\ p.price.str = s

Price_45_00 == <<"$", "4", "5", ".", "0", "0">>
Price_150_00 == <<"$", "1", "5", "0", ".", "0", "0">>
Price_1299_99 == <<"$", "1", ",", "2", "9", "9", ".", "9", "9">>

\* The documented examples: "$45.00" kept and "$150.00" dropped under
\* "Under $100"; "$1,299.99" kept under "Over $1000" and nowhere else.
DocumentedExamples(p) ==
    /\ (PriceIs(p, Price_45_00) /\ fl_budget = "Under $100") => KeptByFilter(p)
    /\ (PriceIs(p, Price_150_00) /\ fl_budget = "Under $100") => ~KeptByFilter(p)
    /\ PriceIs(p, Price_1299_99) =>
          /\ DocumentedCents(p.price.str) = 129999
          /\ KeptByFilter(p) <=> (fl_budget = "Over $1000")

ComparedByDocumentedValue(p) ==
    LET cents == DocumentedCents(p.price.str)
    IN  /\ StrictlyInside(cents, fl_budget) => KeptByFilter(p)
        /\ StrictlyOutside(cents, fl_budget) => ~KeptByFilter(p)
        /\ DocumentedExamples(p)

\* C6 (as stated): under a recognised bracket, every product whose price
\* string contains a digit is kept or dropped by the documented value of its
\* price (non-digits removed; cents when more than 2 digits, else dollars).
C6_AnyDigitPriceCompared ==
    (FilterApplied /\ RecognisedBudget) =>
        \A i \in 1..Len(fl_products) :
            LET p == fl_products[i]
            IN  (p.price.has /\ HasDecimalDigit(p.price.str)) =>
                    ComparedByDocumentedValue(p)

\* C6 (amended): the same for every product whose price string contains a
\* decimal digit and no digit character that float() rejects (a superscript
\* digit: such a price is kept whatever the bracket).
C6_DecimalPriceCompared ==
    (FilterApplied /\ RecognisedBudget) =>
        \A i \in 1..Len(fl_products) :
            LET p == fl_products[i]
            IN  /\ (p.price.has /\ HasDecimalDigit(p.price.str)
                        /\ ~HasSuperscriptDigit(p.price.str)) =>
                        ComparedByDocumentedValue(p)
                /\ (p.price.has /\ HasSuperscriptDigit(p.price.str)) =>
                        KeptByFilter(p)

\* C6 witness: "$1,299.99" went through the filter under "Over $1000" and
\* was kept.
C6_Witness ==
    /\ FilterApplied
    /\ fl_budget = "Over $1000"
    /\ fl_products = <<Product(Price(Price_1299_99), NoRating)>>
    /\ fl_once = fl_products

\* C7: under a recognised bracket, every product whose price string holds
\* no digit character, whatever the string, is kept (fail-open).
C7_NoDigitPriceKept ==
    (FilterApplied /\ RecognisedBudget) =>
        \A i \in 1..Len(fl_products) :
            LET p == fl_products[i]
            IN  (p.price.has /\ \A k \in 1..Len(p.price.str) :
                                    ~isdigit(p.price.str[k])) =>
                    KeptByFilter(p)

\* C8: under a recognised bracket, filtering the filtered list again gives
\* the same list, in the same order.
C8_FilterIdempotent ==
    (fl_pc = "twice" /\ RecognisedBudget) => fl_twice = fl_once

\* C8 witness: a list was filtered twice, and the first pass dropped one
\* product and kept two.
C8_Witness ==
    /\ fl_pc = "twice"
    /\ RecognisedBudget
    /\ Len(fl_products) = 3
    /\ Len(fl_once) = 2

\* C10: each recognised bracket is half-open: a product whose parsed price
\* equals the bracket's upper bound is dropped.
C10_UpperBoundDropped ==
    (FilterApplied /\ RecognisedBudget /\ ~budget_ranges[fl_budget].inf) =>
        \A i \in 1..Len(fl_products) :
            LET p == fl_products[i]
                num == price_num(price_get(p))
            IN  (num # <<>> /\ ~float_raises(num)
                    /\ price_cents(num) = 100 * budget_ranges[fl_budget].max) =>
                    ~KeptByFilter(p)

\* ===================================================================
\* Properties of the request handler (checked under Spec)
\* ===================================================================
\* The query is empty or holds only whitespace.
BlankQuery == \A i \in 1..Len(request.query) : request.query[i] \in Whitespace

Done == pc = "done"

ErrorResponse(status) ==
    /\ response.status = status
    /\ "error" \in DOMAIN response.body

SuccessFields ==
    {"success", "products_found", "products_after_filter", "avg_rating",
     "budget_range", "ai_recommendations", "products"}

SuccessResponse ==
    /\ response.status = 200
    /\ DOMAIN response.body = SuccessFields
    /\ response.body.success = TRUE

\* The search client was called and yielded no products: the endpoint
\* returned none, or the call failed.
SearchYieldedNothing ==
    /\ search_outcome # <<>>
    /\ (search_outcome[1] # "ok" \/ products = <<>>)

\* C1: a request whose query is empty or only whitespace ends with HTTP 400
\* and an `error` field, and at no point of it is either outbound call made.
C1_BlankQueryRejected ==
    BlankQuery =>
        /\ search_calls = <<>>
        /\ gen_calls = <<>>
        /\ pc \in {"validate", "done"}
        /\ pc = "validate" => ENABLED Validate
        /\ Done => ErrorResponse(400)

\* C1 witness: a whitespace-only query was answered.
C1_Witness ==
    /\ Done
    /\ request.query = <<" ", "\t">>
    /\ response.status = 400

\* C2: with a non-empty query, when the search client yields no products
\* (none returned, or a failure swallowed into an empty list), the handler
\* ends with HTTP 404 and an `error` field and never calls
\* get_ai_recommendations.
C2_NoProductsNotFound ==
    (~BlankQuery /\ SearchYieldedNothing) =>
        /\ Done
        /\ ErrorResponse(404)
        /\ gen_calls = <<>>
        /\ Len(search_calls) = 1

\* C2 witness: a transport error of the search call was answered with 404.
C2_Witness ==
    /\ Done
    /\ search_outcome = <<"transport_error">>
    /\ response.status = 404

\* C3: every request ends in success, HTTP 400 or HTTP 404; 400 only for an
\* empty query, 404 only for zero search results, and success whenever the
\* search returned at least one product, whatever its records.
C3_ThreeOutcomes ==
    Done =>
        /\ response.status \in {200, 400, 404}
        /\ response.status = 400 => BlankQuery
        /\ response.status = 404 => SearchYieldedNothing
        /\ response.status = 200 => SuccessResponse
        /\ products # <<>> => SuccessResponse

GenerationFailed == gen_outcome # <<>> /\ gen_outcome[1] # "ok"

\* C4: when the generation call fails, the handler still ends in success,
\* with ai_recommendations the error string and the other fields as they
\* are when generation succeeds.
C4_GenerationFailureIsSuccess ==
    (Done /\ GenerationFailed) =>
        /\ SuccessResponse
        /\ response.body.ai_recommendations =
               <<"Error generating recommendations: ", gen_outcome[1]>>
        /\ response.body.products_found = Len(products)
        /\ response.body.products = filter_by_budget(products, request.budget_range)
        /\ response.body.products_after_filter = Len(response.body.products)
        /\ response.body.avg_rating = avg_rating_of(response.body.products)

\* The ratings the documentation counts: numbers and strings that parse as
\* numbers; absent, None and unparsable ratings are skipped.
DocumentedRated(ps) ==
    SelectSeq(ps, LAMBDA p : p.rating.kind \in {"num", "numstr"})

\* C5: avg_rating is the arithmetic mean of the parsable ratings of the
\* filtered products, 0 when there is none, and an absent, None or
\* unparsable rating is skipped without failing the request.
\* (avg_rating is in tenths and the ratings in halves: mean = sum / (2 n).)
C5_AvgRatingIsMean ==
    (Done /\ filtered_products # <<>> /\ gen_calls # <<>>) =>
        LET rs == DocumentedRated(filtered_products)
        IN  /\ SuccessResponse
            /\ IF rs = <<>> THEN response.body.avg_rating = 0
               ELSE 2 * Len(rs) * response.body.avg_rating = 10 * sum_halves(rs)

StepsOf(t) == SelectSeq(t, LAMBDA step : step # "validate")

\* C9 (as stated): a request that reaches success took the steps build
\* query, search, filter, statistics, generation, respond, once each and in
\* that order, with neither outbound call issued twice.
C9_StatisticsBeforeGeneration ==
    (Done /\ response.status = 200) =>
        /\ StepsOf(trace) = <<"build_query", "search", "filter", "statistics",
                              "generate", "respond">>
        /\ Len(search_calls) = 1
        /\ Len(gen_calls) = 1

\* C9 (amended): the steps are build query, search, filter, generation,
\* statistics, respond, once each and in that order: the generation call is
\* issued before the statistics are computed.  Neither outbound call is
\* issued twice.
C9_GenerationBeforeStatistics ==
    (Done /\ response.status = 200) =>
        /\ StepsOf(trace) = <<"build_query", "search", "filter", "generate",
                              "statistics", "respond">>
        /\ Len(search_calls) = 1
        /\ Len(gen_calls) = 1

\* C9 witness: a request ended in success after a generation failure.
C9_Witness ==
    /\ Done
    /\ response.status = 200
    /\ gen_outcome = <<"quota">>

====
